---- MODULE Spec2Model ----
(***************************************************************************)
(* Order-completion pollers of the IBM provider and the Create handlers    *)
(* that call them.                                                         *)
(*                                                                         *)
(*   findDedicatedFirewallByOrderId  (firewall resource)                   *)
(*   findVlanByOrderId               (network VLAN resource)               *)
(*                                                                         *)
(* Both build a resource.StateChangeConf around a Refresh closure and call *)
(* WaitForState.  The closures, the configuration values and the code that *)
(* follows WaitForState are translated from the provider's source.         *)
(* WaitForState itself belongs to the host framework and is modelled from  *)
(* the polling algorithm of the specification (section 4.1).               *)
(*                                                                         *)
(* Time is a discrete clock in seconds, counted from the moment            *)
(* WaitForState is entered.                                                *)
(***************************************************************************)
EXTENDS Integers, Sequences, FiniteSets, TLC

VARIABLES
    kind,        \* which Create handler runs: "firewall" or "vlan"
    d,           \* schema.ResourceData: [id]; the configured fields are inputs
    pc,          \* position of the handler
    orderId,     \* *receipt.OrderId handed to the poller (0 before the order)
    remote,      \* ids of the VLANs the account lists for the order
    interval,    \* backoff interval of the wait loop (>= MinTimeout)
    elapsed,     \* seconds since WaitForState was entered
    nextTick,    \* time at which the next tick is due
    ticks,       \* number of poll ticks run
    listCalls,   \* number of GetNetworkVlans calls issued
    last,        \* the listing of the last tick: [vlans, err]
    pollResult,  \* what the poller returned: [vlan, err]
    reads,       \* remote read calls issued by the handler, poller included
    writes,      \* remote write calls issued (PlaceOrder, EditObject, SetTags)
    postCalls,   \* remote calls issued after the poller returned
    attempts,    \* the VLAN handler's order containers: [mismatch, packages]
    ret,         \* what the handler returned: [status, msg, err]
    inv,         \* two poller invocations running concurrently (or <<>>)
    js,          \* one call of suppressEquivalentJSON: [pc, old, new, ret]
    qn,          \* one run of the qualified-name resolver
    wsk,         \* the OpenWhisk action resource and its remote namespace
    del          \* one call of a Delete handler of the firewall or VLAN resource

\* the state of the other components, which the Create handlers never touch
extVars == <<inv, js, qn, wsk, del>>

\* the state of one Create handler and its poller
pollVars == <<kind, d, pc, orderId, remote, interval, elapsed, nextTick, ticks,
              listCalls, last, pollResult, reads, writes, postCalls,
              attempts, ret>>

vars == <<kind, d, pc, orderId, remote, interval, elapsed, nextTick, ticks,
          listCalls, last, pollResult, reads, writes, postCalls, attempts,
          ret, inv, js, qn, wsk, del>>

\* a component that is not part of the run
Off == [pc |-> "off"]

----------------------------------------------------------------------------
(* Bounds of the model *)

MaxOrderId == 2      \* order identifiers are 1..MaxOrderId
MaxVlanId == 2       \* VLAN identifiers are 1..MaxVlanId
MaxErr == 2          \* distinct transport/auth errors of the listing call
MaxBackoff == 1      \* the backoff interval is MinTimeout..MinTimeout+MaxBackoff
MaxSkew == 2         \* a concurrent invocation starts 0..MaxSkew seconds later

OrderIds == 1..MaxOrderId
VlanIds == 1..MaxVlanId
ErrCodes == 1..MaxErr

----------------------------------------------------------------------------
(* Values *)

Nil == 0

\* error values: kind is the message or type, code the transport error,
\* arg a formatted argument, orderId the order identifier the message names
NoErr == [kind |-> "nil", code |-> 0, arg |-> "", orderId |-> 0]

ListErr(e) == [kind |-> "transport", code |-> e, arg |-> "", orderId |-> 0]

\* fmt's rendering of an error value under %s
ErrText(err) == IF err = NoErr THEN "%!s(<nil>)" ELSE err.kind

\* datatypes.Network_Vlan{}: every pointer field nil
ZeroVlan == [Id |-> Nil, FirewallId |-> Nil]

\* a VLAN the account lists; its dedicated firewall carries the same number
VlanOf(v) == [Id |-> v, FirewallId |-> v]

\* interface{} values handed around by Refresh and WaitForState
NilResult == [isVlan |-> FALSE, vlan |-> ZeroVlan]
VlanResult(v) == [isVlan |-> TRUE, vlan |-> v]

RECURSIVE SetToSeq(_)
SetToSeq(S) ==
    IF S = {} THEN <<>>
    ELSE LET m == CHOOSE x \in S : \A y \in S : x <= y
         IN <<VlanOf(m)>> \o SetToSeq(S \ {m})

\* GetNetworkVlans filtered by the order id: the VLANs of the order, or an error
Listings(r) ==
    {[vlans |-> SetToSeq(r), err |-> NoErr]}
      \cup {[vlans |-> <<>>, err |-> ListErr(e)] : e \in ErrCodes}

----------------------------------------------------------------------------
(* findDedicatedFirewallByOrderId *)

FirewallStateConf ==
    [Pending |-> {"pending"}, Target |-> {"complete"},
     Timeout |-> 45 * 60, Delay |-> 10, MinTimeout |-> 10]

\* variant: the listing error is not checked before the results are counted
FirewallRefresh_ErrUnchecked(l) ==
    IF Len(l.vlans) = 1
    THEN [res |-> VlanResult(l.vlans[1]), state |-> "complete", err |-> NoErr]
    ELSE IF Len(l.vlans) = 0 /\ l.err = NoErr
    THEN [res |-> NilResult, state |-> "pending", err |-> NoErr]
    ELSE [res |-> NilResult, state |-> "",
          err |-> [kind |-> "Expected one dedicated firewall", code |-> 0,
                   arg |-> ErrText(l.err), orderId |-> 0]]

\* variant: any non-empty listing completes with its first element
FirewallRefresh_AnyNonEmpty(l) ==
    IF l.err # NoErr
    THEN [res |-> VlanResult(ZeroVlan), state |-> "", err |-> l.err]
    ELSE IF Len(l.vlans) >= 1
    THEN [res |-> VlanResult(l.vlans[1]), state |-> "complete", err |-> NoErr]
    ELSE [res |-> NilResult, state |-> "pending", err |-> NoErr]

FirewallRefresh(l) ==
    IF l.err # NoErr
    THEN [res |-> VlanResult(ZeroVlan), state |-> "", err |-> l.err]
    ELSE IF Len(l.vlans) = 1
    THEN [res |-> VlanResult(l.vlans[1]), state |-> "complete", err |-> NoErr]
    ELSE IF Len(l.vlans) = 0
    THEN [res |-> NilResult, state |-> "pending", err |-> NoErr]
    ELSE [res |-> NilResult, state |-> "",
          err |-> [kind |-> "Expected one dedicated firewall", code |-> 0,
                   arg |-> ErrText(l.err), orderId |-> 0]]

\* variant: the type assertion never succeeds
findDedicatedFirewallByOrderId_AssertFails(w, o) ==
    IF w.err # NoErr
    THEN [vlan |-> ZeroVlan, err |-> w.err]
    ELSE [vlan |-> ZeroVlan,
          err |-> [kind |-> "Cannot find Dedicated Firewall with order id",
                   code |-> 0, arg |-> "", orderId |-> o]]

\* the code after WaitForState: w = [res, err] is what WaitForState returned
findDedicatedFirewallByOrderId(w, o) ==
    IF w.err # NoErr
    THEN [vlan |-> ZeroVlan, err |-> w.err]
    ELSE IF w.res.isVlan
    THEN [vlan |-> w.res.vlan, err |-> NoErr]
    ELSE [vlan |-> ZeroVlan,
          err |-> [kind |-> "Cannot find Dedicated Firewall with order id",
                   code |-> 0, arg |-> "", orderId |-> o]]

----------------------------------------------------------------------------
(* findVlanByOrderId *)

VlanStateConf ==
    [Pending |-> {"pending"}, Target |-> {"complete"},
     Timeout |-> 10 * 60, Delay |-> 5, MinTimeout |-> 3]

\* variant: an ambiguous listing is treated as not yet arrived
VlanRefresh_ManyPending(l) ==
    IF l.err # NoErr
    THEN [res |-> VlanResult(ZeroVlan), state |-> "", err |-> l.err]
    ELSE IF Len(l.vlans) = 1
    THEN [res |-> VlanResult(l.vlans[1]), state |-> "complete", err |-> NoErr]
    ELSE [res |-> NilResult, state |-> "pending", err |-> NoErr]

\* variant: an empty listing is reported as an error
VlanRefresh_NoneIsError(l) ==
    IF l.err # NoErr
    THEN [res |-> VlanResult(ZeroVlan), state |-> "", err |-> l.err]
    ELSE IF Len(l.vlans) = 1
    THEN [res |-> VlanResult(l.vlans[1]), state |-> "complete", err |-> NoErr]
    ELSE [res |-> NilResult, state |-> "",
          err |-> [kind |-> "Expected one vlan", code |-> 0,
                   arg |-> ErrText(l.err), orderId |-> 0]]

\* variant: a listing error is swallowed and the tick counts as pending
VlanRefresh_ErrorPending(l) ==
    IF l.err # NoErr
    THEN [res |-> NilResult, state |-> "pending", err |-> NoErr]
    ELSE IF Len(l.vlans) = 1
    THEN [res |-> VlanResult(l.vlans[1]), state |-> "complete", err |-> NoErr]
    ELSE IF Len(l.vlans) = 0
    THEN [res |-> NilResult, state |-> "pending", err |-> NoErr]
    ELSE [res |-> NilResult, state |-> "",
          err |-> [kind |-> "Expected one vlan", code |-> 0,
                   arg |-> ErrText(l.err), orderId |-> 0]]

VlanRefresh(l) ==
    IF l.err # NoErr
    THEN [res |-> VlanResult(ZeroVlan), state |-> "", err |-> l.err]
    ELSE IF Len(l.vlans) = 1
    THEN [res |-> VlanResult(l.vlans[1]), state |-> "complete", err |-> NoErr]
    ELSE IF Len(l.vlans) = 0
    THEN [res |-> NilResult, state |-> "pending", err |-> NoErr]
    ELSE [res |-> NilResult, state |-> "",
          err |-> [kind |-> "Expected one vlan", code |-> 0,
                   arg |-> ErrText(l.err), orderId |-> 0]]

\* variant: every failure is reported as the not-found error
findVlanByOrderId_OneError(w, o) ==
    IF w.err = NoErr /\ w.res.isVlan
    THEN [vlan |-> w.res.vlan, err |-> NoErr]
    ELSE [vlan |-> ZeroVlan,
          err |-> [kind |-> "Cannot find vlan with order id",
                   code |-> 0, arg |-> "", orderId |-> o]]

findVlanByOrderId(w, o) ==
    IF w.err # NoErr
    THEN [vlan |-> ZeroVlan, err |-> w.err]
    ELSE IF w.res.isVlan
    THEN [vlan |-> w.res.vlan, err |-> NoErr]
    ELSE [vlan |-> ZeroVlan,
          err |-> [kind |-> "Cannot find vlan with order id",
                   code |-> 0, arg |-> "", orderId |-> o]]

----------------------------------------------------------------------------
(* Dispatch on the resource kind *)

Conf(k) == IF k = "firewall" THEN FirewallStateConf ELSE VlanStateConf

Refresh(k, l) == IF k = "firewall" THEN FirewallRefresh(l) ELSE VlanRefresh(l)

FindByOrderId(k, w, o) ==
    IF k = "firewall" THEN findDedicatedFirewallByOrderId(w, o)
    ELSE findVlanByOrderId(w, o)

----------------------------------------------------------------------------
(* Remote calls one Refresh invocation issues: one GetNetworkVlans read *)

\* variant: the closure also writes to the remote system
FirewallRefreshCalls_Writes == [reads |-> 1, writes |-> 1]

FirewallRefreshCalls == [reads |-> 1, writes |-> 0]

VlanRefreshCalls == [reads |-> 1, writes |-> 0]

RefreshCalls(k) == IF k = "firewall" THEN FirewallRefreshCalls ELSE VlanRefreshCalls

----------------------------------------------------------------------------
(* WaitForState: the wait loop of the host framework *)

TimeoutError(conf, lastState) ==
    [kind |-> "timeout", code |-> conf.Timeout, arg |-> lastState, orderId |-> 0]

UnexpectedStateError(state) ==
    [kind |-> "unexpected state", code |-> 0, arg |-> state, orderId |-> 0]

\* what one tick decides from the Refresh result r: "retry" or a return value
WaitForStateStep(conf, r) ==
    IF r.err # NoErr
    THEN [done |-> TRUE, res |-> NilResult, err |-> r.err]
    ELSE IF r.state \in conf.Target
    THEN [done |-> TRUE, res |-> r.res, err |-> NoErr]
    ELSE IF r.state \in conf.Pending
    THEN [done |-> FALSE, res |-> NilResult, err |-> NoErr]
    ELSE [done |-> TRUE, res |-> NilResult, err |-> UnexpectedStateError(r.state)]

NoListing == [vlans |-> <<>>, err |-> NoErr]

NoPollResult == [vlan |-> ZeroVlan, err |-> NoErr]

\* no order container was asked for yet
NoAttempts == [mismatch |-> FALSE, packages |-> <<>>]

\* one poll tick: the sleep that precedes it, Refresh, and the decision
WaitForStateTick ==
    /\ pc = "waiting"
    /\ nextTick <= Conf(kind).Timeout
    /\ \E l \in Listings(remote) :
         LET r == Refresh(kind, l)
             s == WaitForStateStep(Conf(kind), r)
             c == RefreshCalls(kind)
         IN /\ elapsed' = nextTick
            /\ ticks' = ticks + 1
            /\ listCalls' = listCalls + c.reads
            /\ reads' = reads + c.reads
            /\ writes' = writes + c.writes
            /\ last' = l
            /\ IF s.done
               THEN /\ pc' = "polled"
                    /\ pollResult' =
                         FindByOrderId(kind, [res |-> s.res, err |-> s.err], orderId)
                    /\ nextTick' = nextTick
               ELSE /\ pc' = "waiting"
                    /\ pollResult' = pollResult
                    /\ nextTick' = nextTick + interval
    /\ UNCHANGED <<kind, d, orderId, remote, interval, postCalls, attempts,
                   ret>>
    /\ UNCHANGED extVars

\* the timeout elapses before the next tick is due
WaitForStateTimeout ==
    /\ pc = "waiting"
    /\ nextTick >= Conf(kind).Timeout
    /\ elapsed' = Conf(kind).Timeout
    /\ pc' = "polled"
    /\ pollResult' =
         FindByOrderId(kind,
             [res |-> NilResult,
              err |-> TimeoutError(Conf(kind),
                         IF ticks = 0 THEN "" ELSE Refresh(kind, last).state)],
             orderId)
    /\ UNCHANGED <<kind, d, orderId, remote, interval, nextTick, ticks,
                   listCalls, last, reads, writes, postCalls, attempts, ret>>
    /\ UNCHANGED extVars

----------------------------------------------------------------------------
(* The remote ordering pipeline materialises a VLAN for the order *)

Provision ==
    /\ pc = "waiting"
    /\ \E v \in VlanIds \ remote : remote' = remote \cup {v}
    /\ UNCHANGED <<kind, d, pc, orderId, interval, elapsed, nextTick, ticks,
                   listCalls, last, pollResult, reads, writes, postCalls,
                   attempts, ret>>
    /\ UNCHANGED extVars

----------------------------------------------------------------------------
(* Handler return values *)

Running == [status |-> "running", msg |-> "", err |-> NoErr]

ReturnNil == [status |-> "ok", msg |-> "", err |-> NoErr]

\* fmt.Errorf(msg + ": %s", err), or a plain error when err is NoErr
ReturnError(msg, err) == [status |-> "error", msg |-> msg, err |-> err]

\* nil pointer dereference: the handler does not return, the process aborts
Panic == [status |-> "panic", msg |-> "nil pointer dereference", err |-> NoErr]

----------------------------------------------------------------------------
(* Configured fields the handlers read from d *)

Names == {"", "vlan-a"}

TagSets == {"", "t1"}

----------------------------------------------------------------------------
(* resourceIBMFirewallCreate *)

FwFailPoints == {"none", "package", "products", "items", "order"}

\* variant: the order is placed before the product items are matched
resourceIBMFirewallCreate_OrderFirst ==
    /\ pc = "init"
    /\ kind = "firewall"
    /\ \E failAt \in FwFailPoints, o \in OrderIds :
         CASE failAt = "package" ->
                \* product.GetPackageByType failed
                /\ reads' = reads + 1
                /\ ret' = ReturnError("", ListErr(1))
                /\ pc' = "returned"
                /\ UNCHANGED <<writes, orderId, elapsed, nextTick>>
           [] failAt = "products" ->
                \* product.GetPackageProducts failed
                /\ reads' = reads + 2
                /\ ret' = ReturnError("", ListErr(1))
                /\ pc' = "returned"
                /\ UNCHANGED <<writes, orderId, elapsed, nextTick>>
           [] failAt = "items" ->
                \* len(targetItems) == 0
                /\ reads' = reads + 2
                /\ writes' = writes + 1
                /\ ret' = ReturnError("No product items matching", NoErr)
                /\ pc' = "returned"
                /\ UNCHANGED <<orderId, elapsed, nextTick>>
           [] failAt = "order" ->
                \* PlaceOrder failed
                /\ reads' = reads + 2
                /\ writes' = writes + 1
                /\ ret' = ReturnError(
                       "Error during creation of dedicated hardware firewall",
                       ListErr(1))
                /\ pc' = "returned"
                /\ UNCHANGED <<orderId, elapsed, nextTick>>
           [] OTHER ->
                \* the order is placed; WaitForState is entered
                /\ reads' = reads + 2
                /\ writes' = writes + 1
                /\ orderId' = o
                /\ elapsed' = 0
                /\ nextTick' = FirewallStateConf.Delay
                /\ ret' = ret
                /\ pc' = "waiting"
    /\ UNCHANGED <<kind, d, remote, interval, ticks, listCalls, last,
                   pollResult, postCalls, attempts>>
    /\ UNCHANGED extVars

\* up to the call of findDedicatedFirewallByOrderId
resourceIBMFirewallCreate ==
    /\ pc = "init"
    /\ kind = "firewall"
    /\ \E failAt \in FwFailPoints, o \in OrderIds :
         CASE failAt = "package" ->
                \* product.GetPackageByType failed
                /\ reads' = reads + 1
                /\ ret' = ReturnError("", ListErr(1))
                /\ pc' = "returned"
                /\ UNCHANGED <<writes, orderId, elapsed, nextTick>>
           [] failAt = "products" ->
                \* product.GetPackageProducts failed
                /\ reads' = reads + 2
                /\ ret' = ReturnError("", ListErr(1))
                /\ pc' = "returned"
                /\ UNCHANGED <<writes, orderId, elapsed, nextTick>>
           [] failAt = "items" ->
                \* len(targetItems) == 0
                /\ reads' = reads + 2
                /\ ret' = ReturnError("No product items matching", NoErr)
                /\ pc' = "returned"
                /\ UNCHANGED <<writes, orderId, elapsed, nextTick>>
           [] failAt = "order" ->
                \* PlaceOrder failed
                /\ reads' = reads + 2
                /\ writes' = writes + 1
                /\ ret' = ReturnError(
                       "Error during creation of dedicated hardware firewall",
                       ListErr(1))
                /\ pc' = "returned"
                /\ UNCHANGED <<orderId, elapsed, nextTick>>
           [] OTHER ->
                \* the order is placed; WaitForState is entered
                /\ reads' = reads + 2
                /\ writes' = writes + 1
                /\ orderId' = o
                /\ elapsed' = 0
                /\ nextTick' = FirewallStateConf.Delay
                /\ ret' = ret
                /\ pc' = "waiting"
    /\ UNCHANGED <<kind, d, remote, interval, ticks, listCalls, last,
                   pollResult, postCalls, attempts>>
    /\ UNCHANGED extVars

\* from the return of findDedicatedFirewallByOrderId to the end
resourceIBMFirewallCreateAfterPoll ==
    /\ pc = "polled"
    /\ kind = "firewall"
    /\ \E tags \in TagSets, tagsOk \in BOOLEAN, readOk \in BOOLEAN :
         IF pollResult.err # NoErr
         THEN /\ ret' = ReturnError(
                    "Error during creation of dedicated hardware firewall",
                    pollResult.err)
              /\ pc' = "returned"
              /\ UNCHANGED <<d, reads, writes, postCalls>>
         ELSE IF pollResult.vlan.FirewallId = Nil
         THEN \* *vlan.NetworkVlanFirewall.Id
              /\ ret' = Panic
              /\ pc' = "panicked"
              /\ UNCHANGED <<d, reads, writes, postCalls>>
         ELSE /\ d' = [d EXCEPT !.id = pollResult.vlan.FirewallId]
              /\ IF tags # "" /\ ~tagsOk
                 THEN \* setFirewallTags failed
                      /\ writes' = writes + 1
                      /\ postCalls' = postCalls + 1
                      /\ reads' = reads
                      /\ ret' = ReturnError("Could not set tags on firewall", NoErr)
                 ELSE \* resourceIBMFirewallRead
                      /\ writes' = writes + (IF tags # "" THEN 1 ELSE 0)
                      /\ reads' = reads + 1
                      /\ postCalls' = postCalls + 1 + (IF tags # "" THEN 1 ELSE 0)
                      /\ ret' = IF readOk THEN ReturnNil
                                ELSE ReturnError(
                                       "Error retrieving firewall information",
                                       ListErr(1))
              /\ pc' = "returned"
    /\ UNCHANGED <<kind, orderId, remote, interval, elapsed, nextTick, ticks,
                   listCalls, last, pollResult, attempts>>
    /\ UNCHANGED extVars

----------------------------------------------------------------------------
(* resourceIBMNetworkVlanCreate *)

VlanTypes == {"PRIVATE", "PUBLIC"}

Routers == {"", "fcr01", "bcr01"}

Datacenters == {"", "dal06"}

\* strings.Contains(router, sub) on the router names of the model
RouterContains(router, sub) ==
    \/ router = "fcr01" /\ sub = "fcr"
    \/ router = "bcr01" /\ sub = "bcr"

BuildFailPoints ==
    {"none", "datacenter", "package", "products", "vlanItems", "subnetItems", "router"}

\* the outcome of one call: whether a container was built, and the reads issued
buildVlanProductOrderContainer(datacenter, router, failAt) ==
    IF datacenter = "" THEN [ok |-> FALSE, reads |-> 0]
    ELSE IF failAt = "datacenter" THEN [ok |-> FALSE, reads |-> 1]
    ELSE IF failAt = "package" THEN [ok |-> FALSE, reads |-> 2]
    ELSE IF failAt \in {"products", "vlanItems", "subnetItems"}
    THEN [ok |-> FALSE, reads |-> 3]
    ELSE IF router # ""
    THEN [ok |-> failAt # "router", reads |-> 4]
    ELSE [ok |-> TRUE, reads |-> 3]

\* the package types of the two attempts (constants of the provider)
AdditionalServicesNetworkVlanPackageType == "ADDITIONAL_SERVICES_NETWORK_VLAN"
AdditionalServicesPackageType == "ADDITIONAL_SERVICES"

\* one call of buildVlanProductOrderContainer: its packageType and whether it
\* returned a container
Attempt(packageType, ok) == [packageType |-> packageType, ok |-> ok]

\* variant: the order container is built before type and router are compared
resourceIBMNetworkVlanCreate_BuildFirst ==
    /\ pc = "init"
    /\ kind = "vlan"
    /\ \E vlanType \in VlanTypes, router \in Routers, datacenter \in Datacenters,
          f1 \in BuildFailPoints, f2 \in BuildFailPoints,
          placeOk \in BOOLEAN, o \in OrderIds :
         LET b1 == buildVlanProductOrderContainer(datacenter, router, f1)
             b2 == buildVlanProductOrderContainer(datacenter, router, f2)
             built == b1.ok \/ b2.ok
             buildReads == b1.reads + (IF b1.ok THEN 0 ELSE b2.reads)
             tried == IF b1.ok
                      THEN <<Attempt(AdditionalServicesNetworkVlanPackageType, TRUE)>>
                      ELSE <<Attempt(AdditionalServicesNetworkVlanPackageType, FALSE),
                             Attempt(AdditionalServicesPackageType, b2.ok)>>
         IN IF \/ vlanType = "PRIVATE" /\ router # "" /\ RouterContains(router, "fcr")
               \/ vlanType = "PUBLIC" /\ router # "" /\ RouterContains(router, "bcr")
            THEN /\ attempts' = [mismatch |-> TRUE, packages |-> tried]
                 /\ reads' = reads + buildReads
                 /\ ret' = ReturnError("Error creating vlan: mismatch", NoErr)
                 /\ pc' = "returned"
                 /\ UNCHANGED <<writes, orderId, elapsed, nextTick>>
            ELSE IF ~built
            THEN /\ attempts' = [mismatch |-> FALSE, packages |-> tried]
                 /\ reads' = reads + buildReads
                 /\ ret' = ReturnError("Error creating vlan", ListErr(1))
                 /\ pc' = "returned"
                 /\ UNCHANGED <<writes, orderId, elapsed, nextTick>>
            ELSE IF ~placeOk
            THEN /\ attempts' = [mismatch |-> FALSE, packages |-> tried]
                 /\ reads' = reads + buildReads
                 /\ writes' = writes + 1
                 /\ ret' = ReturnError("Error during creation of vlan", ListErr(1))
                 /\ pc' = "returned"
                 /\ UNCHANGED <<orderId, elapsed, nextTick>>
            ELSE \* the order is placed; WaitForState is entered
                 /\ attempts' = [mismatch |-> FALSE, packages |-> tried]
                 /\ reads' = reads + buildReads
                 /\ writes' = writes + 1
                 /\ orderId' = o
                 /\ elapsed' = 0
                 /\ nextTick' = VlanStateConf.Delay
                 /\ ret' = ret
                 /\ pc' = "waiting"
    /\ UNCHANGED <<kind, d, remote, interval, ticks, listCalls, last,
                   pollResult, postCalls>>
    /\ UNCHANGED extVars

\* up to the call of findVlanByOrderId
resourceIBMNetworkVlanCreate ==
    /\ pc = "init"
    /\ kind = "vlan"
    /\ \E vlanType \in VlanTypes, router \in Routers, datacenter \in Datacenters,
          f1 \in BuildFailPoints, f2 \in BuildFailPoints,
          placeOk \in BOOLEAN, o \in OrderIds :
         LET b1 == buildVlanProductOrderContainer(datacenter, router, f1)
             b2 == buildVlanProductOrderContainer(datacenter, router, f2)
             built == b1.ok \/ b2.ok
             buildReads == b1.reads + (IF b1.ok THEN 0 ELSE b2.reads)
             tried == IF b1.ok
                      THEN <<Attempt(AdditionalServicesNetworkVlanPackageType, TRUE)>>
                      ELSE <<Attempt(AdditionalServicesNetworkVlanPackageType, FALSE),
                             Attempt(AdditionalServicesPackageType, b2.ok)>>
         IN IF \/ vlanType = "PRIVATE" /\ router # "" /\ RouterContains(router, "fcr")
               \/ vlanType = "PUBLIC" /\ router # "" /\ RouterContains(router, "bcr")
            THEN /\ attempts' = [mismatch |-> TRUE, packages |-> <<>>]
                 /\ ret' = ReturnError("Error creating vlan: mismatch", NoErr)
                 /\ pc' = "returned"
                 /\ UNCHANGED <<reads, writes, orderId, elapsed, nextTick>>
            ELSE IF ~built
            THEN /\ attempts' = [mismatch |-> FALSE, packages |-> tried]
                 /\ reads' = reads + buildReads
                 /\ ret' = ReturnError("Error creating vlan", ListErr(1))
                 /\ pc' = "returned"
                 /\ UNCHANGED <<writes, orderId, elapsed, nextTick>>
            ELSE IF ~placeOk
            THEN /\ attempts' = [mismatch |-> FALSE, packages |-> tried]
                 /\ reads' = reads + buildReads
                 /\ writes' = writes + 1
                 /\ ret' = ReturnError("Error during creation of vlan", ListErr(1))
                 /\ pc' = "returned"
                 /\ UNCHANGED <<orderId, elapsed, nextTick>>
            ELSE \* the order is placed; WaitForState is entered
                 /\ attempts' = [mismatch |-> FALSE, packages |-> tried]
                 /\ reads' = reads + buildReads
                 /\ writes' = writes + 1
                 /\ orderId' = o
                 /\ elapsed' = 0
                 /\ nextTick' = VlanStateConf.Delay
                 /\ ret' = ret
                 /\ pc' = "waiting"
    /\ UNCHANGED <<kind, d, remote, interval, ticks, listCalls, last,
                   pollResult, postCalls>>
    /\ UNCHANGED extVars

\* from the return of findVlanByOrderId to the end; the poller's error is
\* assigned and never looked at
resourceIBMNetworkVlanCreateAfterPoll ==
    /\ pc = "polled"
    /\ kind = "vlan"
    /\ \E name \in Names, tags \in TagSets,
          editOk \in BOOLEAN, tagsOk \in BOOLEAN, readOk \in BOOLEAN :
         IF pollResult.vlan.Id = Nil
         THEN \* *vlan.Id, as the argument of Id() or of Sprintf
              /\ ret' = Panic
              /\ pc' = "panicked"
              /\ UNCHANGED <<d, reads, writes, postCalls>>
         ELSE IF name # "" /\ ~editOk
         THEN \* EditObject failed
              /\ writes' = writes + 1
              /\ postCalls' = postCalls + 1
              /\ ret' = ReturnError("Error updating vlan", ListErr(1))
              /\ pc' = "returned"
              /\ UNCHANGED <<d, reads>>
         ELSE LET edits == IF name # "" THEN 1 ELSE 0
                  tagged == IF tags # "" THEN 1 ELSE 0
              IN /\ d' = [d EXCEPT !.id = pollResult.vlan.Id]
                 /\ IF tags # "" /\ ~tagsOk
                    THEN \* setVlanTags failed
                         /\ writes' = writes + edits + 1
                         /\ postCalls' = postCalls + edits + 1
                         /\ reads' = reads
                         /\ ret' = ReturnError("Could not set tags on vlan", NoErr)
                    ELSE \* resourceIBMNetworkVlanRead
                         /\ writes' = writes + edits + tagged
                         /\ reads' = reads + 1
                         /\ postCalls' = postCalls + edits + tagged + 1
                         /\ ret' = IF readOk THEN ReturnNil
                                   ELSE ReturnError("Error retrieving vlan", ListErr(1))
                 /\ pc' = "returned"
    /\ UNCHANGED <<kind, orderId, remote, interval, elapsed, nextTick, ticks,
                   listCalls, last, pollResult, attempts>>
    /\ UNCHANGED extVars

----------------------------------------------------------------------------
(* Specification *)

Init ==
    /\ kind \in {"firewall", "vlan"}
    /\ d = [id |-> Nil]
    /\ pc = "init"
    /\ orderId = 0
    /\ remote = {}
    /\ interval \in {Conf(kind).MinTimeout + b : b \in 0..MaxBackoff}
    /\ elapsed = 0
    /\ nextTick = 0
    /\ ticks = 0
    /\ listCalls = 0
    /\ last = NoListing
    /\ pollResult = NoPollResult
    /\ reads = 0
    /\ writes = 0
    /\ postCalls = 0
    /\ attempts = NoAttempts
    /\ ret = Running
    /\ inv = <<>>
    /\ js = Off
    /\ qn = Off
    /\ wsk = Off
    /\ del = Off

Next ==
    \/ resourceIBMFirewallCreate
    \/ resourceIBMNetworkVlanCreate
    \/ WaitForStateTick
    \/ WaitForStateTimeout
    \/ Provision
    \/ resourceIBMFirewallCreateAfterPoll
    \/ resourceIBMNetworkVlanCreateAfterPoll

Spec == Init /\ [][Next]_vars

\* the scheduler keeps running the wait loop and its timer
FairSpec ==
    Spec /\ WF_vars(WaitForStateTick) /\ WF_vars(WaitForStateTimeout)

----------------------------------------------------------------------------
(* Properties *)

\* the poller has returned to its caller
PollDone == orderId # 0 /\ pc \in {"polled", "returned", "panicked"}

\* the listing of the last tick
ListedOne == ticks > 0 /\ last.err = NoErr /\ Len(last.vlans) = 1
ListedNone == ticks > 0 /\ last.err = NoErr /\ Len(last.vlans) = 0
ListedMany == ticks > 0 /\ last.err = NoErr /\ Len(last.vlans) > 1
ListingFailed == ticks > 0 /\ last.err # NoErr

AmbiguityKinds == {"Expected one dedicated firewall", "Expected one vlan"}

\* C1: a tick that lists exactly one resource ends the poll with success and
\* the poller returns that resource; a success is never returned otherwise.
C1_OneResultResolves ==
    /\ ListedOne => /\ PollDone
                    /\ pollResult.err = NoErr
                    /\ pollResult.vlan = last.vlans[1]
    /\ (PollDone /\ pollResult.err = NoErr) => ListedOne

C1_Witness ==
    /\ pc = "polled" /\ pollResult.err = NoErr
    /\ ticks > 1 /\ pollResult.vlan = VlanOf(2)

\* C2: when the poll times out, the Create handler returns an error, sets no
\* resource id and issues no further remote call (it does not crash).
C2_TimeoutIsReturnedError ==
    (PollDone /\ pollResult.err.kind = "timeout" /\ pc # "polled")
        => (ret.status = "error" /\ d.id = Nil /\ postCalls = 0)

\* C3: a tick that lists more than one resource ends the poll at that tick
\* with the ambiguity error: no later listing call, no wait for the timeout.
C3_AmbiguousEndsImmediately ==
    /\ [](ListedMany => /\ PollDone
                        /\ pollResult.err.kind \in AmbiguityKinds
                        /\ elapsed = nextTick
                        /\ listCalls = ticks)
    /\ [][ListedMany => (listCalls' = listCalls /\ elapsed' = elapsed)]_vars

C3_Witness ==
    /\ pc = "polled" /\ ListedMany /\ ticks > 1
    /\ elapsed < Conf(kind).Timeout

\* C4: a tick that lists nothing leaves the poll pending with the next tick
\* due at least MinTimeout later; what follows a pending tick is either that
\* tick or the timeout error; and every poll run ends.
C4_PendingRetriesUntilTimeout ==
    /\ [][(ticks' = ticks + 1 /\ last'.err = NoErr /\ Len(last'.vlans) = 0)
            => (pc' = "waiting"
                /\ nextTick' >= elapsed' + Conf(kind).MinTimeout)]_vars
    /\ [][(pc = "waiting" /\ ticks > 0 /\ (ticks' # ticks \/ pc' # pc))
            => \/ ticks' = ticks + 1
                  /\ elapsed' >= elapsed + Conf(kind).MinTimeout
                  /\ elapsed' <= Conf(kind).Timeout
               \/ ticks' = ticks
                  /\ pc' = "polled"
                  /\ pollResult'.err.kind = "timeout"
                  /\ elapsed' = Conf(kind).Timeout]_vars
    /\ (pc = "waiting") ~> PollDone

C4_Witness ==
    /\ pc = "polled" /\ ListedNone
    /\ pollResult.err.kind = "timeout" /\ ticks > 100

\* C5: a failing listing call ends the poll at that tick, and the poller
\* returns the very error value the listing call produced.
C5_ListingErrorSurfacedUnchanged ==
    /\ [](ListingFailed => /\ PollDone
                           /\ pollResult.err = last.err
                           /\ elapsed = nextTick
                           /\ listCalls = ticks)
    /\ [][ListingFailed => listCalls' = listCalls]_vars

C5_Witness ==
    /\ pc = "polled" /\ ListingFailed /\ ticks > 1
    /\ pollResult.err = ListErr(2)

\* the one VLAN the listing collaborator holds for the order
TheOne == CHOOSE v \in remote : TRUE

\* ticks that listed nothing so far (the N of the property below)
ZeroTicks == IF ListedOne THEN ticks - 1 ELSE ticks

\* C6 as stated: the collaborator lists nothing on the first N ticks and one
\* resource afterwards, the N ticks fit before the timeout; then the poller
\* returns that resource with at most N+1 listing calls, within the timeout.
C6_ResolvesAfterZeroTicks ==
    (PollDone /\ Cardinality(remote) = 1 /\ ~ListingFailed)
        => /\ pollResult.err = NoErr
           /\ pollResult.vlan = VlanOf(TheOne)
           /\ listCalls <= ZeroTicks + 1
           /\ elapsed <= Conf(kind).Timeout

\* C6 amended: the same, provided tick N+1 is itself due before the timeout.
C6_ResolvesWhenNextTickFits ==
    (PollDone /\ Cardinality(remote) = 1 /\ ~ListingFailed
        /\ nextTick < Conf(kind).Timeout)
        => /\ ListedOne
           /\ pollResult.err = NoErr
           /\ pollResult.vlan = VlanOf(TheOne)
           /\ listCalls <= ZeroTicks + 1
           /\ elapsed < Conf(kind).Timeout

C6_Witness ==
    /\ pc = "polled" /\ Cardinality(remote) = 1 /\ ListedOne
    /\ ZeroTicks = 3 /\ pollResult.vlan = VlanOf(TheOne)

\* C7: when every tick lists nothing, the poll ends with the timeout error at
\* an elapsed time within MinTimeout of Timeout.
C7_AlwaysZeroTimesOut ==
    (PollDone /\ ~ListedOne /\ ~ListedMany /\ ~ListingFailed)
        => /\ pollResult.err.kind = "timeout"
           /\ elapsed >= Conf(kind).Timeout - Conf(kind).MinTimeout
           /\ elapsed <= Conf(kind).Timeout + Conf(kind).MinTimeout

C7_Witness ==
    /\ pc = "polled" /\ ListedNone /\ kind = "firewall"
    /\ elapsed = 45 * 60 /\ pollResult.err.kind = "timeout"

\* what the caller receives for an ambiguous tick, and for a timeout
AmbiguityReturned(k, o) ==
    LET s == WaitForStateStep(Conf(k),
                 Refresh(k, [vlans |-> <<VlanOf(1), VlanOf(2)>>, err |-> NoErr]))
    IN FindByOrderId(k, [res |-> s.res, err |-> s.err], o).err

TimeoutReturned(k, o) ==
    FindByOrderId(k, [res |-> NilResult,
                      err |-> TimeoutError(Conf(k), "pending")], o).err

\* C8: the error returned for an ambiguous listing and the error returned for
\* a timeout are of different kinds, and both are errors.
C8_AmbiguityAndTimeoutDistinct ==
    PollDone =>
        /\ ListedMany => /\ pollResult.err # NoErr
                         /\ pollResult.err.kind # TimeoutReturned(kind, orderId).kind
        /\ ListedNone => /\ pollResult.err # NoErr
                         /\ pollResult.err.kind # AmbiguityReturned(kind, orderId).kind

C8_Witness ==
    /\ pc = "polled" /\ ListedMany /\ kind = "firewall"
    /\ pollResult.err.kind = "Expected one dedicated firewall"

\* C9: the error the poller returns when the deadline passes names the order
\* identifier that was polled for.
C9_TimeoutErrorNamesOrder ==
    (PollDone /\ ListedNone) => pollResult.err.orderId = orderId

\* C10: a tick issues exactly one remote read and no write, and changes
\* neither the remote system nor the resource data; the timeout step issues
\* no call at all.
C10_TickReadsOnceWritesNothing ==
    /\ [][ticks' # ticks
            => /\ ticks' = ticks + 1
               /\ listCalls' = listCalls + 1
               /\ reads' = reads + 1
               /\ writes' = writes
               /\ remote' = remote
               /\ d' = d]_vars
    /\ [][(pc = "waiting" /\ pc' = "polled" /\ ticks' = ticks)
            => /\ reads' = reads
               /\ writes' = writes
               /\ remote' = remote
               /\ d' = d]_vars
    /\ [](pc = "waiting" => (listCalls = ticks /\ d.id = Nil))

C10_Witness ==
    /\ pc = "waiting" /\ ticks = 3 /\ listCalls = 3
    /\ remote = {1} /\ writes = 1

----------------------------------------------------------------------------
(* Two poller invocations running concurrently.                            *)
(* Each invocation has its own StateChangeConf and its own Refresh closure; *)
(* the loop variables of an invocation are dropped when it returns.        *)
(* Both run on the wall clock of the process, counted from the moment the  *)
(* first one enters WaitForState: events happen in the order of their      *)
(* times, and events due at the same instant happen in either order.       *)

Invocations == 1..2

\* the order id a Refresh closure filters by
\* variant: a package-level variable written by the latest invocation
ClosureOrderId_Shared(i, orders) == orders[Len(orders)]

\* the closure captures the orderId parameter of its own invocation
ClosureOrderId(i, orders) == orders[i]

\* every listing the account can answer with
AllListings == UNION {Listings(r) : r \in SUBSET VlanIds}

\* an invocation that enters WaitForState at time t
NewInvocation(k, o, t) ==
    [kind |-> k, orderId |-> o, pc |-> "waiting",
     nextTick |-> t + Conf(k).Delay, deadline |-> t + Conf(k).Timeout,
     ticked |-> FALSE, timedOut |-> FALSE, own |-> NoListing,
     result |-> NoPollResult]

\* different order ids, or one firewall poll and one VLAN poll
PairStarts ==
    {<<NewInvocation(k1, o1, 0), NewInvocation(k2, o2, t)>> :
        k1 \in {"firewall", "vlan"}, o1 \in OrderIds,
        k2 \in {"firewall", "vlan"}, o2 \in OrderIds, t \in 0..MaxSkew}

\* the time of the next event of a waiting invocation
EventTime(v) == IF v.nextTick <= v.deadline THEN v.nextTick ELSE v.deadline

\* no other invocation has an event due earlier than time t
Earliest(i, t) ==
    \A j \in Invocations \ {i} : inv[j].pc = "waiting" => t <= EventTime(inv[j])

\* the Create handler of the single-invocation runs is not part of the run
PollIdle ==
    /\ kind = "firewall"
    /\ d = [id |-> Nil]
    /\ pc = "off"
    /\ orderId = 0
    /\ remote = {}
    /\ interval = 0
    /\ elapsed = 0
    /\ nextTick = 0
    /\ ticks = 0
    /\ listCalls = 0
    /\ last = NoListing
    /\ pollResult = NoPollResult
    /\ reads = 0
    /\ writes = 0
    /\ postCalls = 0
    /\ attempts = NoAttempts
    /\ ret = Running

\* one tick of invocation i: lo is what the account lists for the order of
\* invocation i at this moment, lc what it lists for the order the closure
\* filters by
PairTick(i) ==
    /\ inv # <<>>
    /\ inv[i].pc = "waiting"
    /\ inv[i].nextTick <= inv[i].deadline
    /\ Earliest(i, inv[i].nextTick)
    /\ LET v == inv[i]
           o == ClosureOrderId(i, [j \in Invocations |-> inv[j].orderId])
       IN \E lo \in AllListings :
            \E lc \in (IF o = v.orderId THEN {lo} ELSE AllListings) :
              LET s == WaitForStateStep(Conf(v.kind), Refresh(v.kind, lc))
              IN inv' = [inv EXCEPT ![i] =
                   IF s.done
                   THEN [v EXCEPT !.pc = "polled", !.nextTick = 0,
                            !.ticked = TRUE, !.own = lo,
                            !.result = FindByOrderId(v.kind,
                                [res |-> s.res, err |-> s.err], v.orderId)]
                   ELSE [v EXCEPT
                            !.nextTick = v.nextTick + Conf(v.kind).MinTimeout,
                            !.ticked = TRUE, !.own = lo]]
    /\ UNCHANGED <<pollVars, js, qn, wsk, del>>

\* the timeout of invocation i elapses before its next tick is due
PairTimeout(i) ==
    /\ inv # <<>>
    /\ inv[i].pc = "waiting"
    /\ inv[i].nextTick >= inv[i].deadline
    /\ Earliest(i, inv[i].deadline)
    /\ LET v == inv[i]
       IN inv' = [inv EXCEPT ![i] =
            [v EXCEPT !.pc = "polled", !.nextTick = 0, !.timedOut = TRUE,
               !.result = FindByOrderId(v.kind,
                   [res |-> NilResult,
                    err |-> TimeoutError(Conf(v.kind),
                               IF v.ticked THEN Refresh(v.kind, v.own).state
                               ELSE "")],
                   v.orderId)]]
    /\ UNCHANGED <<pollVars, js, qn, wsk, del>>

InitPair ==
    /\ PollIdle
    /\ inv \in PairStarts
    /\ inv[1].kind # inv[2].kind \/ inv[1].orderId # inv[2].orderId
    /\ js = Off
    /\ qn = Off
    /\ wsk = Off
    /\ del = Off

NextPair ==
    \/ \E i \in Invocations : PairTick(i)
    \/ \E i \in Invocations : PairTimeout(i)

SpecPair == InitPair /\ [][NextPair]_vars

\* what invocation v returns when it runs alone and its last tick received
\* the listing l
RunAlone(v, l) ==
    LET s == WaitForStateStep(Conf(v.kind), Refresh(v.kind, l))
    IN [done |-> s.done,
        out |-> FindByOrderId(v.kind, [res |-> s.res, err |-> s.err], v.orderId)]

RunAloneTimeout(v, l) ==
    FindByOrderId(v.kind,
        [res |-> NilResult,
         err |-> TimeoutError(Conf(v.kind), Refresh(v.kind, l).state)],
        v.orderId)

----------------------------------------------------------------------------
(* suppressEquivalentJSON: the diff suppression of the annotations and     *)
(* parameters attributes.                                                  *)
(*                                                                         *)
(* An input string is described by the JSON text it holds: its form and,   *)
(* for an array, its elements as written.  json.Unmarshal turns it into Go *)
(* values: a missing member and a null member both read as nil, a string   *)
(* as a string, a number as a float64, an object as a map and an array as  *)
(* a slice.                                                                *)

MaxElems == 2    \* arrays of {key, value} objects hold up to MaxElems elements
MaxRaw == 1      \* arrays of arbitrary elements hold up to MaxRaw elements

\* JSON values as written in the text
JString(str) == [t |-> "string", v |-> str]
JNull == [t |-> "null", v |-> ""]
JNumber == [t |-> "number", v |-> "1"]
JObject == [t |-> "object", v |-> "{}"]
JArray == [t |-> "array", v |-> "[]"]
JAbsent == [t |-> "absent", v |-> ""]

KeyNames == {"a", "b"}
ValueNames == {"x", "y"}

\* an array element as written: an object with its "key" and "value" members
JElem(k, v) == [t |-> "object", key |-> k, value |-> v]
JNullElem == [t |-> "null", key |-> JAbsent, value |-> JAbsent]
JNumberElem == [t |-> "number", key |-> JAbsent, value |-> JAbsent]

PairElems == {JElem(JString(k), JString(v)) : k \in KeyNames, v \in ValueNames}

RawElems ==
    PairElems
      \cup {JElem(k, JString("x")) : k \in {JNull, JNumber, JObject, JArray, JAbsent}}
      \cup {JElem(JString("a"), v) : v \in {JNull, JNumber, JObject, JArray, JAbsent}}
      \cup {JNullElem, JNumberElem}

SeqsUpTo(S, n) == UNION {[1..m -> S] : m \in 0..n}

JText(form, elems) == [form |-> form, elems |-> elems]

\* the strings the function is called with
Texts ==
    {JText("array", e) : e \in SeqsUpTo(PairElems, MaxElems)}
      \cup {JText("array", e) : e \in SeqsUpTo(RawElems, MaxRaw)}
      \cup {JText(f, <<>>) : f \in {"empty", "invalid", "null", "object"}}

\* Go values
GoNil == [t |-> "nil", v |-> ""]

\* the interface{} value a JSON value unmarshals to
GoValue(j) ==
    IF j.t \in {"null", "absent"} THEN GoNil
    ELSE IF j.t = "number" THEN [t |-> "float64", v |-> j.v]
    ELSE IF j.t = "object" THEN [t |-> "map", v |-> j.v]
    ELSE IF j.t = "array" THEN [t |-> "slice", v |-> j.v]
    ELSE [t |-> "string", v |-> j.v]

\* json.Unmarshal([]byte(text), &obj) with obj a []map[string]interface{}:
\* obj[i] is described by what m["key"] and m["value"] read from it
Unmarshal(text) ==
    IF text.form \in {"empty", "invalid", "object"}
    THEN [err |-> TRUE, obj |-> <<>>]
    ELSE IF text.form = "null"
    THEN [err |-> FALSE, obj |-> <<>>]
    ELSE IF \E i \in DOMAIN text.elems : text.elems[i].t = "number"
    THEN [err |-> TRUE, obj |-> <<>>]
    ELSE [err |-> FALSE,
          obj |-> [i \in DOMAIN text.elems |->
                      [key |-> GoValue(text.elems[i].key),
                       value |-> GoValue(text.elems[i].value)]]]

\* a map or a slice cannot be the key of a map[interface{}]interface{}
Hashable(k) == k.t \notin {"map", "slice"}

\* variant: an assignment to a key already present is dropped
MapAssign_KeepFirst(m, k, v) ==
    IF k \in DOMAIN m THEN m
    ELSE [x \in DOMAIN m \cup {k} |-> IF x = k THEN v ELSE m[x]]

\* m[k] = v
MapAssign(m, k, v) ==
    [x \in DOMAIN m \cup {k} |-> IF x = k THEN v ELSE m[x]]

EmptyMap == [x \in {} |-> GoNil]

RECURSIVE BuildMap(_, _, _)
\* for _, m := range obj { mm[m["key"]] = m["value"] }, from index i on
BuildMap(obj, i, mm) ==
    IF i > Len(obj) THEN mm
    ELSE BuildMap(obj, i + 1, MapAssign(mm, obj[i].key, obj[i].value))

\* variant: only the key sets are compared
DeepEqual_KeysOnly(a, b) == DOMAIN a = DOMAIN b

\* reflect.DeepEqual of two non-nil maps
DeepEqual(a, b) ==
    /\ DOMAIN a = DOMAIN b
    /\ \A k \in DOMAIN a : a[k] = b[k]

\* variant: a new string that does not parse is read as an empty array
suppressEquivalentJSON_IgnoreNewError(old, new) ==
    IF old.form = "empty" THEN "false"
    ELSE LET o == Unmarshal(old)
             n == Unmarshal(new)
         IN IF o.err THEN "false"
            ELSE IF \E i \in DOMAIN o.obj : ~Hashable(o.obj[i].key) THEN "panic"
            ELSE IF \E i \in DOMAIN n.obj : ~Hashable(n.obj[i].key) THEN "panic"
            ELSE IF DeepEqual(BuildMap(o.obj, 1, EmptyMap),
                              BuildMap(n.obj, 1, EmptyMap))
            THEN "true" ELSE "false"

\* variant: an empty old string suppresses the difference
suppressEquivalentJSON_EmptyOldSuppressed(old, new) ==
    IF old.form = "empty" THEN "true"
    ELSE LET o == Unmarshal(old)
             n == Unmarshal(new)
         IN IF o.err THEN "false"
            ELSE IF n.err THEN "false"
            ELSE IF \E i \in DOMAIN o.obj : ~Hashable(o.obj[i].key) THEN "panic"
            ELSE IF \E i \in DOMAIN n.obj : ~Hashable(n.obj[i].key) THEN "panic"
            ELSE IF DeepEqual(BuildMap(o.obj, 1, EmptyMap),
                              BuildMap(n.obj, 1, EmptyMap))
            THEN "true" ELSE "false"

\* the outcome of the call: "true", "false", or "panic" when the runtime
\* aborts the goroutine
suppressEquivalentJSON(old, new) ==
    IF old.form = "empty" THEN "false"
    ELSE LET o == Unmarshal(old)
             n == Unmarshal(new)
         IN IF o.err THEN "false"
            ELSE IF n.err THEN "false"
            ELSE IF \E i \in DOMAIN o.obj : ~Hashable(o.obj[i].key) THEN "panic"
            ELSE IF \E i \in DOMAIN n.obj : ~Hashable(n.obj[i].key) THEN "panic"
            ELSE IF DeepEqual(BuildMap(o.obj, 1, EmptyMap),
                              BuildMap(n.obj, 1, EmptyMap))
            THEN "true" ELSE "false"

\* the framework asks whether the difference between old and new is suppressed
DiffSuppress ==
    /\ js.pc = "call"
    /\ js' = [js EXCEPT !.pc = "done",
                        !.ret = suppressEquivalentJSON(js.old, js.new)]
    /\ UNCHANGED <<pollVars, inv, qn, wsk, del>>

InitJSON ==
    /\ PollIdle
    /\ inv = <<>>
    /\ js \in {[pc |-> "call", old |-> o, new |-> n, ret |-> "none"] :
                 o \in Texts, n \in Texts}
    /\ qn = Off
    /\ wsk = Off
    /\ del = Off

NextJSON == DiffSuppress

SpecJSON == InitJSON /\ [][NextJSON]_vars

\* the string is an array of {key, value} objects with string keys and values
PairArray(text) ==
    /\ text.form = "array"
    /\ \A i \in DOMAIN text.elems : text.elems[i] \in PairElems

\* the call has returned and both strings are such arrays
PairArraysCompared == js.pc = "done" /\ PairArray(js.old) /\ PairArray(js.new)

\* b holds the elements of a in a different order
Reordered(a, b) ==
    /\ Len(a) = Len(b)
    /\ a # b
    /\ \E f \in [DOMAIN a -> DOMAIN a] :
         /\ \A i, j \in DOMAIN a : f[i] = f[j] => i = j
         /\ \A i \in DOMAIN a : b[i] = a[f[i]]

\* no key occurs twice with different values
Unambiguous(a) ==
    \A i, j \in DOMAIN a : a[i].key = a[j].key => a[i].value = a[j].value

\* the mapping an array stands for: each key with the value of its last
\* occurrence
DerivedPairs(a) ==
    {<<a[i].key.v, a[i].value.v>> :
        i \in {i \in DOMAIN a : \A j \in DOMAIN a : j > i => a[j].key # a[i].key}}

\* C12 as stated: two arrays of {key, value} objects holding the same
\* elements in a different order are equivalent, and arrays whose derived
\* mappings differ in a key or a value are not
C12_ReorderedIsEquivalent ==
    PairArraysCompared =>
        /\ Reordered(js.old.elems, js.new.elems) => js.ret = "true"
        /\ DerivedPairs(js.old.elems) # DerivedPairs(js.new.elems)
               => js.ret = "false"

\* C12: two arrays of {key, value} objects holding the same elements in a
\* different order, no key occurring twice with different values, are
\* equivalent; arrays whose derived mappings differ in a key or a value are not
C12_ReorderedUnambiguousIsEquivalent ==
    PairArraysCompared =>
        /\ (Reordered(js.old.elems, js.new.elems) /\ Unambiguous(js.old.elems))
               => js.ret = "true"
        /\ DerivedPairs(js.old.elems) # DerivedPairs(js.new.elems)
               => js.ret = "false"

\* two different keys in swapped order were found equivalent
C12_Witness ==
    /\ PairArraysCompared
    /\ Len(js.old.elems) = 2
    /\ js.old.elems[1].key # js.old.elems[2].key
    /\ Reordered(js.old.elems, js.new.elems)
    /\ js.ret = "true"

\* either string fails to unmarshal into []map[string]interface{}
ParseError == Unmarshal(js.old).err \/ Unmarshal(js.new).err

\* C13: for every pair of input strings the call returns a boolean, and it
\* returns false when either string fails to parse
C13_FailsOpen ==
    js.pc = "done" =>
        /\ js.ret \in {"true", "false"}
        /\ ParseError => js.ret = "false"

\* the last value an array gives for key k
LastValue(a, k) ==
    LET last_i == CHOOSE i \in DOMAIN a :
                     /\ a[i].key = k
                     /\ \A j \in DOMAIN a : a[j].key = k => j <= i
    IN a[last_i].value

KeysOf(a) == {a[i].key : i \in DOMAIN a}

\* C14: two arrays are equivalent exactly when they hold the same keys and,
\* for each key, the values of its last occurrences agree
C14_LastOccurrenceWins ==
    PairArraysCompared =>
        (js.ret = "true" <=>
            /\ KeysOf(js.old.elems) = KeysOf(js.new.elems)
            /\ \A k \in KeysOf(js.old.elems) :
                 LastValue(js.old.elems, k) = LastValue(js.new.elems, k))

\* an array repeating a key with another, earlier value was found equivalent
\* to the array holding the last value only
C14_Witness ==
    /\ PairArraysCompared
    /\ Len(js.old.elems) = 2 /\ Len(js.new.elems) = 1
    /\ js.old.elems[1].key = js.old.elems[2].key
    /\ js.old.elems[1].value # js.old.elems[2].value
    /\ js.new.elems[1] = js.old.elems[2]
    /\ js.ret = "true"

----------------------------------------------------------------------------
(* The qualified-name resolver: NewQualifiedName and the canonical form.   *)
(* A string is the sequence of its characters.  The resolver follows the   *)
(* grammar of section 4.2 of the specification: an optional leading "/",   *)
(* then one to three non-empty segments separated by "/".                  *)

MaxIdLen == 7    \* identifier strings hold up to MaxIdLen characters

Chars == {"a", "b", "/"}

RawIds == SeqsUpTo(Chars, MaxIdLen)

RECURSIVE Split(_)
\* strings.Split(str, "/")
Split(str) ==
    IF \A i \in DOMAIN str : str[i] # "/" THEN <<str>>
    ELSE LET i == CHOOSE i \in DOMAIN str :
                     str[i] = "/" /\ \A j \in 1..(i - 1) : str[j] # "/"
         IN <<SubSeq(str, 1, i - 1)>> \o Split(SubSeq(str, i + 1, Len(str)))

\* the segments of a string, without the empty one a leading "/" gives
Segments(str) ==
    LET parts == Split(str)
    IN IF Len(parts) > 1 /\ parts[1] = <<>> THEN Tail(parts) ELSE parts

QualifiedName(ns, pkg, entity) ==
    [ok |-> TRUE, namespace |-> ns, packageName |-> pkg, entityName |-> entity]

Malformed ==
    [ok |-> FALSE, namespace |-> <<>>, packageName |-> <<>>, entityName |-> <<>>]

\* variant: the first segment is always the entity name
NewQualifiedName_EntityFirst(str) ==
    LET segs == Segments(str)
    IN IF Len(segs) > 3 \/ \E i \in DOMAIN segs : segs[i] = <<>> THEN Malformed
       ELSE IF Len(segs) = 1 THEN QualifiedName(<<>>, <<>>, segs[1])
       ELSE IF Len(segs) = 2 THEN QualifiedName(segs[2], <<>>, segs[1])
       ELSE QualifiedName(segs[2], segs[3], segs[1])

\* variant: a fourth segment is dropped instead of being rejected
NewQualifiedName_Lenient(str) ==
    LET segs == Segments(str)
    IN IF \E i \in DOMAIN segs : i <= 3 /\ segs[i] = <<>> THEN Malformed
       ELSE IF Len(segs) = 1 THEN QualifiedName(<<>>, <<>>, segs[1])
       ELSE IF Len(segs) = 2 THEN QualifiedName(segs[1], <<>>, segs[2])
       ELSE QualifiedName(segs[1], segs[2], segs[3])

\* parse: entityName, namespace/entityName or namespace/package/entityName
NewQualifiedName(str) ==
    LET segs == Segments(str)
    IN IF Len(segs) > 3 \/ \E i \in DOMAIN segs : segs[i] = <<>> THEN Malformed
       ELSE IF Len(segs) = 1 THEN QualifiedName(<<>>, <<>>, segs[1])
       ELSE IF Len(segs) = 2 THEN QualifiedName(segs[1], <<>>, segs[2])
       ELSE QualifiedName(segs[1], segs[2], segs[3])

\* variant: the package segment is left out of the canonical form
format_NoPackage(q) ==
    IF q.namespace = <<>> THEN q.entityName
    ELSE <<"/">> \o q.namespace \o <<"/">> \o q.entityName

\* format: the canonical form, with a leading "/" exactly when a namespace
\* is present
format(q) ==
    IF q.namespace = <<>> THEN q.entityName
    ELSE IF q.packageName = <<>>
    THEN <<"/">> \o q.namespace \o <<"/">> \o q.entityName
    ELSE <<"/">> \o q.namespace \o <<"/">> \o q.packageName
                 \o <<"/">> \o q.entityName

\* the resolver is handed the raw string
Parse ==
    /\ qn.pc = "call"
    /\ qn' = [qn EXCEPT !.pc = "parsed", !.parsed = NewQualifiedName(qn.raw)]
    /\ UNCHANGED <<pollVars, inv, js, wsk, del>>

\* an accepted name is serialized and the canonical form resolved again
Reparse ==
    /\ qn.pc = "parsed"
    /\ qn.parsed.ok
    /\ qn' = [qn EXCEPT !.pc = "reparsed",
                        !.canon = format(qn.parsed),
                        !.again = NewQualifiedName(format(qn.parsed))]
    /\ UNCHANGED <<pollVars, inv, js, wsk, del>>

InitName ==
    /\ PollIdle
    /\ inv = <<>>
    /\ js = Off
    /\ qn \in {[pc |-> "call", raw |-> r, parsed |-> Malformed,
                canon |-> <<>>, again |-> Malformed] : r \in RawIds}
    /\ wsk = Off
    /\ del = Off

NextName == Parse \/ Reparse

SpecName == InitName /\ [][NextName]_vars

\* C16: for every accepted string, resolving its canonical form gives the
\* same namespace, package and entity name as resolving the string itself
C16_RoundTrip ==
    qn.pc = "reparsed" =>
        /\ qn.again.ok
        /\ qn.again.namespace = qn.parsed.namespace
        /\ qn.again.packageName = qn.parsed.packageName
        /\ qn.again.entityName = qn.parsed.entityName

\* a three-part name written without the leading "/" went through the round
\* trip, its canonical form differing from the string itself
C16_Witness ==
    /\ qn.pc = "reparsed"
    /\ qn.parsed.namespace # <<>> /\ qn.parsed.packageName # <<>>
    /\ qn.canon # qn.raw
    /\ qn.again = qn.parsed

\* the non-empty segments of a string, its leading "/" stripped
NonEmptySegments(str) ==
    LET segs == Segments(str)
    IN {i \in DOMAIN segs : segs[i] # <<>>}

\* C17: the empty string, a string ending in "/" and a string with more
\* than three non-empty segments are rejected
C17_RejectsMalformed ==
    (/\ qn.pc = "parsed"
     /\ \/ qn.raw = <<>>
        \/ (qn.raw # <<>> /\ qn.raw[Len(qn.raw)] = "/")
        \/ Cardinality(NonEmptySegments(qn.raw)) > 3)
    => ~qn.parsed.ok

\* the four-segment string "a/b/a/b" was rejected
C17_Witness ==
    /\ qn.pc = "parsed"
    /\ ~qn.parsed.ok
    /\ qn.raw = <<"a", "/", "b", "/", "a", "/", "b">>

\* C18: components are assigned by position: three segments are namespace,
\* package and entity name, a single segment is the entity name alone, and
\* an accepted name never has an empty entity name
C18_Positional ==
    qn.pc = "parsed" =>
        LET segs == Split(qn.raw)
        IN /\ (Len(segs) = 3 /\ \A i \in 1..3 : segs[i] # <<>>) =>
                  qn.parsed = QualifiedName(segs[1], segs[2], segs[3])
           /\ (Len(segs) = 1 /\ segs[1] # <<>>) =>
                  qn.parsed = QualifiedName(<<>>, <<>>, segs[1])
           /\ qn.parsed.ok => qn.parsed.entityName # <<>>

\* "a/b/ab" resolved to namespace a, package b, entity ab
C18_Witness ==
    /\ qn.pc = "parsed"
    /\ qn.raw = <<"a", "/", "b", "/", "a", "b">>
    /\ qn.parsed = QualifiedName(<<"a">>, <<"b">>, <<"a", "b">>)

----------------------------------------------------------------------------
(* The OpenWhisk action resource: Create, Read, Update, Delete, Exists.    *)
(*                                                                         *)
(* wsk.cfg is the configured "action" block, wsk.d the resource data,      *)
(* wsk.ns the Namespace field of the shared whisk client, wsk.remote the   *)
(* actions the service stores, each with the Namespace and the Name the    *)
(* service answers with.  wsk.log lists what the last handler call did,    *)
(* in order: identifier resolutions, namespace assignments, remote calls.  *)

Packages == {<<>>, <<"b">>}
ActionNames == {<<>>, <<"a">>}

\* identifiers a user can hand to "terraform import"
ImportIds == {<<"a">>, <<"b", "/", "a">>, <<"a", "/">>,
              <<"a", "/", "b", "/", "a", "/", "b">>}

\* the Namespace field of the action the service answers Insert with
ReplyNamespaces == {<<"a">>, <<"a", "/", "b">>}

\* the service answers with a package segment exactly for a packaged action
ReplyFor(cfg) ==
    {rns \in ReplyNamespaces : Len(Split(rns)) = 2 <=> cfg.package # <<>>}

Event(op, arg, ns) == [op |-> op, arg |-> arg, ns |-> ns]

RemoteOps == {"Insert", "Get", "Delete"}

WskRunning == [status |-> "running", kind |-> "", raw |-> <<>>]
WskNil == [status |-> "ok", kind |-> "", raw |-> <<>>]
WskBool(b) == [status |-> IF b THEN "true" ELSE "false", kind |-> "", raw |-> <<>>]
WskError(k) == [status |-> "error", kind |-> k, raw |-> <<>>]

\* the malformed-identifier error, which carries the raw string
NewQualifiedNameError(raw) ==
    [status |-> "error", kind |-> "MalformedIdentifier", raw |-> raw]

\* a handler call starts
Begin(w, op) ==
    [w EXCEPT !.op = op, !.log = <<>>, !.before = w.d, !.changed = FALSE,
              !.ret = WskRunning]

\* NewQualifiedName(raw) succeeded: wskClient.Namespace = GetNamespace()
Resolved(w, raw) ==
    LET q == NewQualifiedName(raw)
    IN [w EXCEPT !.ns = q.namespace,
                 !.log = @ \o <<Event("resolve", raw, w.ns),
                                Event("namespace", q.namespace, q.namespace)>>]

\* NewQualifiedName(raw) failed
Unresolved(w, raw) ==
    [w EXCEPT !.log = Append(@, Event("resolve", raw, w.ns)),
              !.ret = NewQualifiedNameError(raw)]

\* a remote call is issued with the client as it is now
Called(w, op, arg) == [w EXCEPT !.log = Append(@, Event(op, arg, w.ns))]

\* the id under which the resource addresses an action of the service:
\* the package segment of its Namespace, if it has one, and its Name
IdOf(e) ==
    LET temp == Split(e.namespace)
    IN IF Len(temp) = 2 THEN temp[2] \o <<"/">> \o e.name ELSE e.name

\* the service stores an action that the id addresses
Found(w, id) == \E e \in w.remote : IdOf(e) = id

\* the action actionService.Get(id) answers with
Got(w, id) == CHOOSE e \in w.remote : IdOf(e) = id

\* the name Create hands to NewQualifiedName
CreateName(cfg) ==
    IF cfg.package # <<>> THEN cfg.package \o <<"/">> \o cfg.name ELSE cfg.name

\* the name Update hands to NewQualifiedName
UpdateName(cfg) == cfg.package \o <<"/">> \o cfg.name

resourceIBMOpenWhiskActionRead(w, clientOk, getOk) ==
    IF ~clientOk THEN [w EXCEPT !.ret = WskError("config")]
    ELSE LET id == w.d.id
         IN IF ~NewQualifiedName(id).ok THEN Unresolved(w, id)
            ELSE LET w1 == Called(Resolved(w, id), "Get", id)
                 IN IF ~getOk \/ ~Found(w1, id)
                    THEN [w1 EXCEPT !.ret = WskError("retrieving")]
                    ELSE [w1 EXCEPT !.d.synced = TRUE, !.ret = WskNil]

resourceIBMOpenWhiskActionCreate(w, clientOk, expandOk, insertOk, rns, getOk) ==
    IF ~clientOk THEN [w EXCEPT !.ret = WskError("config")]
    ELSE LET name == CreateName(w.cfg)
             q == NewQualifiedName(name)
         IN IF ~q.ok THEN Unresolved(w, name)
            ELSE LET w1 == Resolved(w, name)
                 IN IF ~expandOk THEN [w1 EXCEPT !.ret = WskError("expand")]
                    ELSE LET w2 == Called(w1, "Insert", q.entityName)
                             action == [namespace |-> rns, name |-> q.entityName]
                         IN IF ~insertOk \/ action \in w2.remote
                            THEN [w2 EXCEPT !.ret = WskError("creating")]
                            ELSE LET temp == Split(action.namespace)
                                     w3 == [w2 EXCEPT
                                        !.remote = @ \cup {action},
                                        !.d.id = IF Len(temp) = 2
                                                 THEN temp[2] \o <<"/">> \o action.name
                                                 ELSE action.name]
                                 IN resourceIBMOpenWhiskActionRead(w3, clientOk, getOk)

\* variant: the Insert is issued whether or not publish changed
resourceIBMOpenWhiskActionUpdate_AlwaysInsert(w, clientOk, publishChanged, insertOk, rns, getOk) ==
    IF ~clientOk THEN [w EXCEPT !.ret = WskError("config")]
    ELSE LET name == UpdateName(w.cfg)
             q == NewQualifiedName(name)
             w0 == [w EXCEPT !.changed = publishChanged]
         IN IF ~q.ok THEN Unresolved(w0, name)
            ELSE LET w2 == Called(Resolved(w0, name), "Insert", q.entityName)
                 IN IF ~insertOk
                    THEN [w2 EXCEPT !.ret = WskError("updating")]
                    ELSE resourceIBMOpenWhiskActionRead(
                             [w2 EXCEPT !.remote = @ \cup
                                 {[namespace |-> rns, name |-> q.entityName]}],
                             clientOk, getOk)

resourceIBMOpenWhiskActionUpdate(w, clientOk, publishChanged, insertOk, rns, getOk) ==
    IF ~clientOk THEN [w EXCEPT !.ret = WskError("config")]
    ELSE LET name == UpdateName(w.cfg)
             q == NewQualifiedName(name)
             w0 == [w EXCEPT !.changed = publishChanged]
         IN IF ~q.ok THEN Unresolved(w0, name)
            ELSE LET w1 == Resolved(w0, name)
                 IN IF ~publishChanged
                    THEN resourceIBMOpenWhiskActionRead(w1, clientOk, getOk)
                    ELSE LET w2 == Called(w1, "Insert", q.entityName)
                         IN IF ~insertOk
                            THEN [w2 EXCEPT !.ret = WskError("updating")]
                            ELSE resourceIBMOpenWhiskActionRead(
                                     [w2 EXCEPT !.remote = @ \cup
                                         {[namespace |-> rns,
                                           name |-> q.entityName]}],
                                     clientOk, getOk)

\* variant: the remote Delete is issued before the identifier is resolved
resourceIBMOpenWhiskActionDelete_CallFirst(w, clientOk, deleteOk) ==
    IF ~clientOk THEN [w EXCEPT !.ret = WskError("config")]
    ELSE LET id == w.d.id
             w0 == Called(w, "Delete", id)
         IN IF ~NewQualifiedName(id).ok THEN Unresolved(w0, id)
            ELSE LET w1 == Resolved(w0, id)
                 IN IF ~deleteOk \/ ~Found(w1, id)
                    THEN [w1 EXCEPT !.ret = WskError("deleting")]
                    ELSE [w1 EXCEPT !.remote = @ \ {Got(w1, id)},
                                    !.d.id = <<>>, !.ret = WskNil]

resourceIBMOpenWhiskActionDelete(w, clientOk, deleteOk) ==
    IF ~clientOk THEN [w EXCEPT !.ret = WskError("config")]
    ELSE LET id == w.d.id
         IN IF ~NewQualifiedName(id).ok THEN Unresolved(w, id)
            ELSE LET w1 == Called(Resolved(w, id), "Delete", id)
                 IN IF ~deleteOk \/ ~Found(w1, id)
                    THEN [w1 EXCEPT !.ret = WskError("deleting")]
                    ELSE [w1 EXCEPT !.remote = @ \ {Got(w1, id)},
                                    !.d.id = <<>>, !.ret = WskNil]

resourceIBMOpenWhiskActionExists(w, clientOk, getOk) ==
    IF ~clientOk THEN [w EXCEPT !.ret = WskError("config")]
    ELSE LET id == w.d.id
         IN IF ~NewQualifiedName(id).ok THEN Unresolved(w, id)
            ELSE LET w1 == Called(Resolved(w, id), "Get", id)
                 IN IF ~getOk THEN [w1 EXCEPT !.ret = WskError("communicating")]
                    ELSE IF ~Found(w1, id) THEN [w1 EXCEPT !.ret = WskBool(FALSE)]
                    ELSE [w1 EXCEPT !.ret = WskBool(Got(w1, id).name = id)]

\* the framework calls Create for a resource that has no id yet
CallCreate ==
    /\ wsk.pc = "ready"
    /\ wsk.d.id = <<>>
    /\ \E clientOk, expandOk, insertOk, getOk \in BOOLEAN, rns \in ReplyFor(wsk.cfg) :
         LET w == resourceIBMOpenWhiskActionCreate(Begin(wsk, "Create"),
                      clientOk, expandOk, insertOk, rns, getOk)
         IN wsk' = IF w.ret = WskNil
                   THEN [w EXCEPT !.created = TRUE, !.createRaw = w.log[1].arg]
                   ELSE w
    /\ UNCHANGED <<pollVars, inv, js, qn, del>>

\* schema.ResourceImporter{}: the id is taken as the user wrote it; the
\* framework then refreshes the resource (Exists, then Read) before it keeps it
Import ==
    /\ wsk.pc = "ready"
    /\ wsk.d.id = <<>>
    /\ \E id \in ImportIds :
         wsk' = [Begin(wsk, "Import") EXCEPT !.pc = "imported", !.d.id = id,
                                             !.ret = WskNil]
    /\ UNCHANGED <<pollVars, inv, js, qn, del>>

\* an import whose refresh fails is not kept
Discard ==
    /\ wsk.pc = "dropped"
    /\ wsk' = [Begin(wsk, "Discard") EXCEPT !.pc = "ready", !.d.id = <<>>,
                                            !.d.synced = FALSE, !.ret = WskNil]
    /\ UNCHANGED <<pollVars, inv, js, qn, del>>

\* someone creates an action of the namespace outside of this resource
OutOfBand ==
    /\ wsk.pc = "ready"
    /\ wsk.d.id = <<>>
    /\ \E rns \in ReplyNamespaces :
         wsk' = [Begin(wsk, "OutOfBand") EXCEPT
                   !.remote = @ \cup {[namespace |-> rns, name |-> <<"a">>]},
                   !.ret = WskNil]
    /\ UNCHANGED <<pollVars, inv, js, qn, del>>

\* someone deletes an action of the namespace outside of this resource
OutOfBandDelete ==
    /\ wsk.pc = "ready"
    /\ \E e \in wsk.remote :
         wsk' = [Begin(wsk, "OutOfBandDelete") EXCEPT !.remote = @ \ {e},
                                                     !.ret = WskNil]
    /\ UNCHANGED <<pollVars, inv, js, qn, del>>

CallRead ==
    /\ wsk.pc \in {"ready", "refresh"}
    /\ wsk.d.id # <<>>
    /\ \E clientOk, getOk \in BOOLEAN :
         LET w == resourceIBMOpenWhiskActionRead(Begin(wsk, "Read"),
                      clientOk, getOk)
         IN wsk' = [w EXCEPT !.pc = IF wsk.pc = "ready" THEN "ready"
                                    ELSE IF w.ret = WskNil THEN "ready"
                                    ELSE "dropped"]
    /\ UNCHANGED <<pollVars, inv, js, qn, del>>

CallUpdate ==
    /\ wsk.pc = "ready"
    /\ wsk.d.id # <<>>
    /\ \E clientOk, publishChanged, insertOk, getOk \in BOOLEAN,
          rns \in ReplyFor(wsk.cfg) :
         wsk' = resourceIBMOpenWhiskActionUpdate(Begin(wsk, "Update"),
                    clientOk, publishChanged, insertOk, rns, getOk)
    /\ UNCHANGED <<pollVars, inv, js, qn, del>>

CallDelete ==
    /\ wsk.pc = "ready"
    /\ wsk.d.id # <<>>
    /\ \E clientOk, deleteOk \in BOOLEAN :
         LET w == resourceIBMOpenWhiskActionDelete(Begin(wsk, "Delete"),
                      clientOk, deleteOk)
         IN wsk' = IF w.ret = WskNil
                   THEN [w EXCEPT !.created = FALSE, !.createRaw = <<>>]
                   ELSE w
    /\ UNCHANGED <<pollVars, inv, js, qn, del>>

CallExists ==
    /\ wsk.pc \in {"ready", "imported"}
    /\ wsk.d.id # <<>>
    /\ \E clientOk, getOk \in BOOLEAN :
         LET w == resourceIBMOpenWhiskActionExists(Begin(wsk, "Exists"),
                      clientOk, getOk)
         IN wsk' = [w EXCEPT !.pc = IF wsk.pc = "ready" THEN "ready"
                                    ELSE IF w.ret = WskBool(TRUE) THEN "refresh"
                                    ELSE "dropped"]
    /\ UNCHANGED <<pollVars, inv, js, qn, del>>

InitWhisk ==
    /\ PollIdle
    /\ inv = <<>>
    /\ js = Off
    /\ qn = Off
    /\ \E pkg \in Packages, name \in ActionNames :
         wsk = [pc |-> "ready",
                cfg |-> [package |-> pkg, name |-> name],
                d |-> [id |-> <<>>, synced |-> FALSE],
                ns |-> <<>>,
                remote |-> {},
                op |-> "none",
                log |-> <<>>,
                before |-> [id |-> <<>>, synced |-> FALSE],
                changed |-> FALSE,
                created |-> FALSE,
                createRaw |-> <<>>,
                ret |-> WskRunning]
    /\ del = Off

NextWhisk ==
    \/ CallCreate
    \/ Import
    \/ Discard
    \/ OutOfBand
    \/ OutOfBandDelete
    \/ CallRead
    \/ CallUpdate
    \/ CallDelete
    \/ CallExists

SpecWhisk == InitWhisk /\ [][NextWhisk]_vars

\* the handlers of the action resource
Handlers == {"Create", "Read", "Update", "Delete", "Exists"}

\* positions of the log at which an identifier failed to resolve
FailedResolutions ==
    {k \in DOMAIN wsk.log :
        wsk.log[k].op = "resolve" /\ ~NewQualifiedName(wsk.log[k].arg).ok}

\* C15: in every handler call each remote call comes right after the
\* identifier was resolved and the client namespace set to the resolved
\* namespace; a call whose identifier fails to resolve returns the
\* malformed-identifier error with the raw string, issues no remote call and
\* leaves the resource data as it was
C15_ResolveBeforeRemoteCall ==
    wsk.op \in Handlers =>
        /\ \A k \in DOMAIN wsk.log :
             wsk.log[k].op \in RemoteOps =>
                /\ k >= 3
                /\ wsk.log[k - 2].op = "resolve"
                /\ NewQualifiedName(wsk.log[k - 2].arg).ok
                /\ wsk.log[k - 1].op = "namespace"
                /\ wsk.log[k - 1].arg = NewQualifiedName(wsk.log[k - 2].arg).namespace
                /\ wsk.log[k].ns = NewQualifiedName(wsk.log[k - 2].arg).namespace
        /\ \A k \in FailedResolutions :
                /\ wsk.ret = NewQualifiedNameError(wsk.log[k].arg)
                /\ \A j \in DOMAIN wsk.log : wsk.log[j].op \notin RemoteOps
                /\ wsk.d = wsk.before

\* Exists was called on an imported id that does not resolve
C15_Witness ==
    /\ wsk.op = "Exists"
    /\ FailedResolutions # {}
    /\ wsk.log = <<Event("resolve", wsk.d.id, wsk.ns)>>
    /\ wsk.ret = NewQualifiedNameError(wsk.d.id)

----------------------------------------------------------------------------
(* Further properties of the pollers and the Create handlers *)

\* the poller returned the error of the ambiguous-match branch
AmbiguousBranchReached == PollDone /\ pollResult.err.kind \in AmbiguityKinds

\* C21: whenever the ambiguous-match branch of a Refresh closure is reached,
\* the tick listed more than one resource without an error, and the error
\* value formatted into the message is nil
C21_AmbiguousBranchErrIsNil ==
    AmbiguousBranchReached =>
        /\ last.err = NoErr
        /\ Len(last.vlans) > 1
        /\ pollResult.err.arg = ErrText(NoErr)

\* the firewall poller reached the branch after at least one pending tick
C21_Witness ==
    /\ AmbiguousBranchReached
    /\ kind = "firewall"
    /\ ticks > 1
    /\ pollResult.err.arg = "%!s(<nil>)"

----------------------------------------------------------------------------
(* Further properties of the action resource *)

\* C22: for a resource that Create returned successfully, Exists answers true
\* whenever the service still stores the action the id addresses
C22_ExistsAfterCreate ==
    (/\ wsk.op = "Exists"
     /\ wsk.created
     /\ Found(wsk, wsk.d.id)
     /\ wsk.ret.status \in {"true", "false"})
    => wsk.ret = WskBool(TRUE)

\* C23: Update hands the resolver the raw string that the Create of the same
\* action block handed it
C23_UpdateResolvesCreateName ==
    (wsk.op = "Update" /\ wsk.created /\ wsk.log # <<>>)
    => wsk.log[1].arg = wsk.createRaw

\* the remote calls of the last handler call, in order
RemoteCalls == SelectSeq(wsk.log, LAMBDA e : e.op \in RemoteOps)

\* C25: Update issues an Insert only when publish changed, and otherwise no
\* remote call but the Get of Read; Delete clears the id exactly when it
\* returns nil, which it does only after the remote Delete, and leaves the
\* resource data unchanged when it returns an error
C25_WritesOnlyOnChange ==
    /\ wsk.op = "Update" =>
         /\ (\E k \in DOMAIN wsk.log : wsk.log[k].op = "Insert") => wsk.changed
         /\ ~wsk.changed =>
                \A k \in DOMAIN RemoteCalls : RemoteCalls[k].op = "Get"
         /\ (~wsk.changed /\ wsk.ret = WskNil) =>
                (Len(RemoteCalls) = 1 /\ wsk.d.synced)
    /\ wsk.op = "Delete" =>
         /\ wsk.d.id = <<>> <=> wsk.ret = WskNil
         /\ wsk.ret = WskNil =>
                (Len(RemoteCalls) = 1 /\ RemoteCalls[1].op = "Delete")
         /\ wsk.ret # WskNil => wsk.d = wsk.before

\* an Update without a publish change refreshed the resource with one Get
C25_Witness ==
    /\ wsk.op = "Update"
    /\ ~wsk.changed
    /\ wsk.ret = WskNil
    /\ Len(RemoteCalls) = 1 /\ RemoteCalls[1].op = "Get"

----------------------------------------------------------------------------
(* Further properties of the firewall Create handler *)

FirewallCreateError == "Error during creation of dedicated hardware firewall"

\* the handler returned because a package lookup failed or no item matched
FirewallNothingToOrder ==
    /\ kind = "firewall" /\ pc = "returned" /\ orderId = 0
    /\ ret.msg # FirewallCreateError

\* the handler returned because PlaceOrder or the poll failed
FirewallOrderOrPollFailed ==
    /\ kind = "firewall" /\ pc = "returned"
    /\ ret.msg = FirewallCreateError

\* C24: the firewall Create handler issues no write before PlaceOrder and at
\* most one PlaceOrder, none when a package lookup fails or no item matches;
\* the id is set only after the poller returned a resource; when PlaceOrder
\* or the poll fails the id stays unset and nothing is written after the order
C24_FirewallCreateOrdering ==
    kind = "firewall" =>
        /\ (pc \in {"waiting", "polled"} => writes = 1)
        /\ (FirewallNothingToOrder => (writes = 0 /\ d.id = Nil))
        /\ (d.id # Nil =>
               (PollDone /\ pollResult.err = NoErr
                  /\ d.id = pollResult.vlan.FirewallId))
        /\ (FirewallOrderOrPollFailed =>
               (d.id = Nil /\ writes = 1 /\ postCalls = 0))
        /\ writes <= 2
        /\ (writes = 2 => (d.id # Nil /\ postCalls >= 1))

\* PlaceOrder succeeded, the poll then timed out and the handler returned
C24_Witness ==
    /\ FirewallOrderOrPollFailed
    /\ orderId # 0
    /\ pollResult.err.kind = "timeout"
    /\ d.id = Nil /\ writes = 1

----------------------------------------------------------------------------
(* Further properties of the VLAN Create handler *)

\* C28: a mismatch of type and router makes the VLAN Create handler return an
\* error before any remote call: nothing read, no container asked for, no
\* order, no poll, no id.  Otherwise the first container is asked for with
\* ADDITIONAL_SERVICES_NETWORK_VLAN, a second one with ADDITIONAL_SERVICES
\* only when the first call failed, and at most one order is placed, none
\* when no container was built
C28_VlanCreateOrdering ==
    (kind = "vlan" /\ pc # "init") =>
        LET p == attempts.packages IN
        /\ attempts.mismatch =>
              /\ pc = "returned" /\ ret.status = "error"
              /\ p = <<>>
              /\ reads = 0 /\ writes = 0 /\ orderId = 0
              /\ ticks = 0 /\ listCalls = 0
              /\ d.id = Nil
        /\ ~attempts.mismatch =>
              /\ Len(p) \in {1, 2}
              /\ p[1].packageType = AdditionalServicesNetworkVlanPackageType
              /\ Len(p) = 2 =>
                    /\ ~p[1].ok
                    /\ p[2].packageType = AdditionalServicesPackageType
              /\ ~p[Len(p)].ok => (pc = "returned" /\ writes = 0 /\ orderId = 0)
              /\ pc \in {"waiting", "polled"} => (writes = 1 /\ p[Len(p)].ok)
              /\ (pc = "returned" /\ orderId = 0 /\ p[Len(p)].ok) => writes = 1

\* the first container could not be built, the second one was, and the order
\* placed for it is being polled
C28_Witness ==
    /\ kind = "vlan" /\ pc = "waiting"
    /\ ~attempts.mismatch
    /\ Len(attempts.packages) = 2
    /\ attempts.packages[2].ok
    /\ writes = 1

----------------------------------------------------------------------------
(* Further properties of suppressEquivalentJSON *)

\* C26: the call with old and new swapped has the same outcome as the call
\* made, for every pair of strings, also when one is empty or does not parse
C26_Symmetric ==
    js.pc = "done" => js.ret = suppressEquivalentJSON(js.new, js.old)

\* old parses and new is the empty string, which no guard tests for
C26_Witness ==
    /\ js.pc = "done"
    /\ js.old.form = "array" /\ js.old.elems # <<>>
    /\ js.new.form = "empty"
    /\ js.ret = "false"

\* the string is an array of objects whose "key" members are strings
StringKeyed(text) ==
    /\ text.form = "array"
    /\ \A i \in DOMAIN text.elems :
          text.elems[i].t = "object" /\ text.elems[i].key.t = "string"

\* C27: an empty old string is never suppressed, whatever new is; a string
\* that is an array of objects with string keys is equivalent to itself
C27_EmptyOldAndReflexive ==
    js.pc = "done" =>
        /\ (js.old.form = "empty" => js.ret = "false")
        /\ ((js.old = js.new /\ StringKeyed(js.old)) => js.ret = "true")

\* both strings are empty and the difference is not suppressed
C27_Witness ==
    /\ js.pc = "done"
    /\ js.old.form = "empty" /\ js.new.form = "empty"
    /\ js.ret = "false"

----------------------------------------------------------------------------
(* resourceIBMNetworkVlanDelete and resourceIBMFirewallDelete *)
(*                                                                         *)
(* One call of a Delete handler: the id held by the resource data, what    *)
(* GetBillingItem answers for it and what CancelService would answer.      *)

MaxBillingId == 2    \* billing item identifiers are 1..MaxBillingId

BillingIds == 1..MaxBillingId

\* d.Id(): the decimal text of an identifier, or text that is no integer
IdTexts == {"1", "2", "x"}

\* strconv.Atoi
Atoi(text) ==
    IF text = "1" THEN [n |-> 1, err |-> FALSE]
    ELSE IF text = "2" THEN [n |-> 2, err |-> FALSE]
    ELSE [n |-> 0, err |-> TRUE]

\* the answers of GetBillingItem: an error, or an item whose Id may be nil
BillingAnswers ==
    {[err |-> TRUE, id |-> Nil]} \cup {[err |-> FALSE, id |-> i] : i \in {Nil} \cup BillingIds}

\* the answers of CancelService: (success, err)
CancelAnswers ==
    {[err |-> TRUE, success |-> FALSE]}
      \cup {[err |-> FALSE, success |-> b] : b \in BOOLEAN}

\* the handler returned r after the remote calls of log
Deleted(w, log, r) == [w EXCEPT !.pc = "done", !.log = log, !.ret = r]

GetBillingItemCall(n) == [call |-> "GetBillingItem", id |-> n]
CancelServiceCall(n) == [call |-> "CancelService", id |-> n]

resourceIBMNetworkVlanDelete(w) ==
    LET vlanId == Atoi(w.id)
    IN IF vlanId.err
       THEN Deleted(w, <<>>,
                    ReturnError("Not a valid vlan ID, must be an integer", NoErr))
       ELSE IF w.billing.err
       THEN Deleted(w, <<GetBillingItemCall(vlanId.n)>>,
                    ReturnError("Error deleting vlan", ListErr(1)))
       ELSE IF w.billing.id = Nil
       THEN Deleted(w, <<GetBillingItemCall(vlanId.n)>>, ReturnNil)
       ELSE Deleted(w, <<GetBillingItemCall(vlanId.n),
                         CancelServiceCall(w.billing.id)>>,
                    IF w.cancel.err THEN ReturnError("", ListErr(1))
                    ELSE ReturnNil)

\* variant: a firewall without a billing item is deleted like such a VLAN
resourceIBMFirewallDelete_NoItemIsSuccess(w) ==
    LET fwID == Atoi(w.id).n
    IN IF w.billing.err
       THEN Deleted(w, <<GetBillingItemCall(fwID)>>,
                    ReturnError("Error while looking up billing item associated with the firewall",
                                ListErr(1)))
       ELSE IF w.billing.id = Nil
       THEN Deleted(w, <<GetBillingItemCall(fwID)>>, ReturnNil)
       ELSE Deleted(w, <<GetBillingItemCall(fwID),
                         CancelServiceCall(w.billing.id)>>,
                    IF w.cancel.err THEN ReturnError("", ListErr(1))
                    ELSE IF ~w.cancel.success
                    THEN ReturnError("SoftLayer reported an unsuccessful cancellation",
                                     NoErr)
                    ELSE ReturnNil)

\* the error of Atoi is dropped: fwID is 0 for an id that is no integer
resourceIBMFirewallDelete(w) ==
    LET fwID == Atoi(w.id).n
    IN IF w.billing.err
       THEN Deleted(w, <<GetBillingItemCall(fwID)>>,
                    ReturnError("Error while looking up billing item associated with the firewall",
                                ListErr(1)))
       ELSE IF w.billing.id = Nil
       THEN Deleted(w, <<GetBillingItemCall(fwID)>>,
                    ReturnError("Error while looking up billing item associated with the firewall: No billing item",
                                NoErr))
       ELSE Deleted(w, <<GetBillingItemCall(fwID),
                         CancelServiceCall(w.billing.id)>>,
                    IF w.cancel.err THEN ReturnError("", ListErr(1))
                    ELSE IF ~w.cancel.success
                    THEN ReturnError("SoftLayer reported an unsuccessful cancellation",
                                     NoErr)
                    ELSE ReturnNil)

\* the framework calls the Delete handler of a VLAN resource
CallVlanDelete ==
    /\ del.pc = "call"
    /\ del.kind = "vlan"
    /\ del' = resourceIBMNetworkVlanDelete(del)
    /\ UNCHANGED <<pollVars, inv, js, qn, wsk>>

\* the framework calls the Delete handler of a firewall resource
CallFirewallDelete ==
    /\ del.pc = "call"
    /\ del.kind = "firewall"
    /\ del' = resourceIBMFirewallDelete(del)
    /\ UNCHANGED <<pollVars, inv, js, qn, wsk>>

InitDelete ==
    /\ PollIdle
    /\ inv = <<>>
    /\ js = Off
    /\ qn = Off
    /\ wsk = Off
    /\ del \in {[pc |-> "call", kind |-> k, id |-> i, billing |-> b,
                 cancel |-> c, log |-> <<>>, ret |-> Running] :
                  k \in {"firewall", "vlan"}, i \in IdTexts,
                  b \in BillingAnswers, c \in CancelAnswers}

NextDelete ==
    \/ CallVlanDelete
    \/ CallFirewallDelete

SpecDelete == InitDelete /\ [][NextDelete]_vars

\* the CancelService calls of the handler
CancelCalls == SelectSeq(del.log, LAMBDA e : e.call = "CancelService")

\* GetBillingItem was called and answered without an error
BillingItemLookedUp ==
    /\ del.pc = "done"
    /\ Len(del.log) >= 1
    /\ ~del.billing.err

\* C29: when the billing item has no id, the VLAN Delete handler returns nil
\* and the firewall Delete handler an error, neither calling CancelService;
\* when it has one, each calls CancelService exactly once, for that item, and
\* the firewall handler returns an error when the cancellation is reported
\* unsuccessful
C29_DeleteWithoutBillingItem ==
    BillingItemLookedUp =>
        /\ del.billing.id = Nil =>
              /\ CancelCalls = <<>>
              /\ del.kind = "vlan" => del.ret = ReturnNil
              /\ del.kind = "firewall" => del.ret.status = "error"
        /\ del.billing.id # Nil =>
              /\ CancelCalls = <<CancelServiceCall(del.billing.id)>>
              /\ (del.kind = "firewall" /\ ~del.cancel.err /\ ~del.cancel.success)
                    => del.ret.status = "error"

\* a firewall whose billing item has no id: an error and no cancellation
C29_Witness ==
    /\ BillingItemLookedUp
    /\ del.kind = "firewall"
    /\ del.billing.id = Nil
    /\ del.ret.status = "error"
    /\ CancelCalls = <<>>

====
